---- MODULE Spec2Model ----
(***************************************************************************)
(* The WEkEO Harmonised Data Access (HDA) download workflow as the         *)
(* notebooks of the repository run it:                                     *)
(*   howto : the step-by-step HDA how-to notebook (wave forecast data)     *)
(*   olci  : the Sentinel-3 OLCI Level 1B retrieve notebook                *)
(*   mhw   : the marine heatwaves notebook, with its SLSTR download cell   *)
(*           and its time-series download cell                            *)
(* The notebooks are the callers; the helpers they call live in            *)
(* hda_api_functions, and the WEkEO server is the environment.             *)
(***************************************************************************)
EXTENDS Integers, Sequences, FiniteSets, TLC

\* ------------------------------------------------------------------ bounds
\* status checks after which the server reports 'completed'
MaxPolls == 3
\* products a job can hold on the server
MaxItems == 3
\* products the server returns per results page
PageSize == 2
\* results pages the pagination loop is followed for
MaxPages == 4
\* years of the reprocessed product in the time-series loop (12 in the notebook)
NumRep == 2
\* years of the near-real-time product in the time-series loop (2 in the notebook)
NumNrt == 1

\* ------------------------------------------------- constants of the notebooks
DS_WAV == "EO:MO:DAT:GLOBAL_ANALYSIS_FORECAST_WAV_001_027:global-analysis-forecast-wav-001-027"
DS_OLCI == "EO:EUM:DAT:SENTINEL-3:OL_1_EFR___"
DS_SLSTR == "EO:EUM:DAT:SENTINEL-3:SL_2_WST___"
DS_REP == "EO:MO:DAT:SST_GLO_SST_L4_REP_OBSERVATIONS_010_011"
DS_NRT == "EO:MO:DAT:SST_GLO_SST_L4_NRT_OBSERVATIONS_010_001"

\* total_results = 1e6, the start value of the pagination loop
TotalResultsStart == 1000000
\* found_results = 0
FoundResultsStart == 0
\* page_count = -1
PageCountStart == -1

\* ------------------------------------------------------------ the API key
Lower == "abcdefghijklmnopqrstuvwxyz"
Upper == "ABCDEFGHIJKLMNOPQRSTUVWXYZ"
Digits == "0123456789"

\* the characters 32..47 and 58..64 of ASCII
Punct1 == " !\"#$%&'()*+,-./"
Punct2 == ":;<=>?@"

\* the Base64 alphabet
B64Alphabet == Upper \o Lower \o Digits \o "+/"

CharAt(str, i) == SubSeq(str, i, i)

\* the position of the character c in str (0: absent)
PosIn(str, c) ==
    IF \E i \in 1..Len(str) : CharAt(str, i) = c
    THEN CHOOSE i \in 1..Len(str) : CharAt(str, i) = c
    ELSE 0

\* the ASCII code of a character: str.encode
Ord(c) ==
    IF PosIn(Lower, c) > 0 THEN 96 + PosIn(Lower, c)
    ELSE IF PosIn(Upper, c) > 0 THEN 64 + PosIn(Upper, c)
    ELSE IF PosIn(Digits, c) > 0 THEN 47 + PosIn(Digits, c)
    ELSE IF PosIn(Punct1, c) > 0 THEN 31 + PosIn(Punct1, c)
    ELSE 57 + PosIn(Punct2, c)

Bytes(str) == [i \in 1..Len(str) |-> Ord(CharAt(str, i))]

B64Char(v) == CharAt(B64Alphabet, v + 1)

\* Base64 of a sequence of bytes: three bytes give four characters, the last
\* group is padded with '='
RECURSIVE Base64Encode(_)
Base64Encode(b) ==
    IF Len(b) = 0 THEN ""
    ELSE IF Len(b) = 1
         THEN B64Char(b[1] \div 4) \o B64Char((b[1] % 4) * 16) \o "=="
    ELSE IF Len(b) = 2
         THEN B64Char(b[1] \div 4) \o B64Char((b[1] % 4) * 16 + b[2] \div 16)
              \o B64Char((b[2] % 16) * 4) \o "="
    ELSE B64Char(b[1] \div 4) \o B64Char((b[1] % 4) * 16 + b[2] \div 16)
         \o B64Char((b[2] % 16) * 4 + b[3] \div 64) \o B64Char(b[3] % 64)
         \o Base64Encode(SubSeq(b, 4, Len(b)))

\* the bytes a Base64 string stands for
RECURSIVE Base64Decode(_)
Base64Decode(str) ==
    IF Len(str) = 0 THEN << >>
    ELSE LET v(i) == PosIn(B64Alphabet, CharAt(str, i)) - 1
             b1 == v(1) * 4 + v(2) \div 16
             b2 == (v(2) % 16) * 16 + v(3) \div 4
             b3 == (v(3) % 4) * 64 + v(4)
             rest == Base64Decode(SubSeq(str, 5, Len(str)))
         IN IF CharAt(str, 3) = "=" THEN << b1 >>
            ELSE IF CharAt(str, 4) = "=" THEN << b1, b2 >>
            ELSE << b1, b2, b3 >> \o rest

\* the key without the ':' between user name and password
generate_api_key_NoColon(username, password) ==
    Base64Encode(Bytes(username \o password))

\* generate_api_key(username, password): Base64 of 'username:password'
generate_api_key(username, password) ==
    Base64Encode(Bytes(username \o ":" \o password))

\* the user names and passwords the key is generated for
UserNames == {"wekeo-test", "a", "ab", "abc", "user", "u-1", "x9", "Zed"}
Passwords == {"wekeo-test", "", "p", "pw", "pwd", "Pass", "s3cr3t", "0"}

\* the documented example
ExampleUser == "wekeo-test"
ExampleKey == "d2VrZW8tdGVzdDp3ZWtlby10ZXN0"

Notebooks == {"howto", "olci", "mhw"}

\* the code cells of a notebook that call the HDA helpers, in notebook order
Notebook(n) ==
    CASE n = "howto" -> <<"howto">>
      [] n = "olci"  -> <<"olci">>
      [] n = "mhw"   -> <<"slstr", "timeseries">>

\* the how-to cells with the download cell run before the order cell
HowtoCells_DownloadFirst ==
    << "init", "get_access_token", "acceptTandC", "load_query", "get_job_id",
       "get_results_list", "set_filename", "download_data", "get_order_ids" >>

\* the statements of the how-to notebook, one HDA cell after the other
HowtoCells ==
    << "init", "get_access_token", "acceptTandC", "load_query", "get_job_id",
       "get_results_list", "get_order_ids", "set_filename", "download_data" >>

\* the OLCI cells with the job launched before the token is requested
OlciCells_JobFirst ==
    << "init", "load_query", "get_job_id", "get_access_token", "acceptTandC",
       "get_results_list", "get_order_ids", "download_data" >>

\* the statements of the OLCI retrieve notebook
OlciCells ==
    << "init", "get_access_token", "acceptTandC", "load_query", "get_job_id",
       "get_results_list", "get_order_ids", "download_data" >>

\* the SLSTR download cell with the download left out of the loop body
SlstrCell_NoDownload ==
    << "if", "init", "get_access_token", "acceptTandC", "load_query",
       "get_job_id", "set_counters", "asdf", "while", "get_results_list",
       "update_counts", "get_order_ids" >>

\* the statements of the SLSTR download cell; the while loop spans the last five
SlstrCell ==
    << "if", "init", "get_access_token", "acceptTandC", "load_query",
       "get_job_id", "set_counters", "asdf", "while", "get_results_list",
       "update_counts", "get_order_ids", "download_data" >>

\* the time-series cell with the download left out of the loop body
TimeSeriesCell_NoDownload ==
    << "if", "init", "get_access_token", "acceptTandC", "for", "load_query",
       "get_job_id", "get_results_list", "get_order_ids" >>

\* the time-series cell without the token request after init
TimeSeriesCell_NoToken ==
    << "if", "init", "acceptTandC", "for", "load_query",
       "get_job_id", "get_results_list", "get_order_ids", "download_data" >>

\* the statements of the time-series download cell; the for loop spans the last six
TimeSeriesCell ==
    << "if", "init", "get_access_token", "acceptTandC", "for", "load_query",
       "get_job_id", "get_results_list", "get_order_ids", "download_data" >>

Code(c) ==
    CASE c = "howto"      -> HowtoCells
      [] c = "olci"       -> OlciCells
      [] c = "slstr"      -> SlstrCell
      [] c = "timeseries" -> TimeSeriesCell

\* the position of the statement named s in a sequence of statements (0: absent)
IndexOf(code, s) ==
    IF \E i \in DOMAIN code : code[i] = s
    THEN CHOOSE i \in DOMAIN code : code[i] = s
    ELSE 0

\* the statement the end of the cell's last statement jumps back to (0: none)
LoopHead(c) ==
    CASE c = "slstr"      -> IndexOf(SlstrCell, "while")
      [] c = "timeseries" -> IndexOf(TimeSeriesCell, "for")
      [] OTHER            -> 0

\* dataset_ids of the time-series cell: the REP product per year, then the NRT one
dataset_ids == [i \in 1..(NumRep + NumNrt) |-> IF i <= NumRep THEN DS_REP ELSE DS_NRT]

\* the value the dataset cell of a notebook gives the global dataset_id
DatasetIdOf(n) ==
    CASE n = "howto" -> DS_WAV
      [] n = "olci"  -> DS_OLCI
      [] n = "mhw"   -> DS_SLSTR

\* the datasetId of the query a cell loads, ds being the global dataset_id
QueryDataset(c, ds) ==
    CASE c = "howto" -> DS_WAV
      [] c = "olci"  -> DS_OLCI
      [] OTHER       -> ds

\* ------------------------------------------------------------------- state
VARIABLES
    nb,             \* the notebook being run
    cell,           \* the cell being run, "done" after the last one
    ip,             \* the statement of the cell that runs next
    at,             \* "stmt", or the place inside a helper that loops
    err,            \* the exception that ended the current cell, or "none"
    ended,          \* the cells that have ended, each with its outcome
    download_data,  \* the flag of the marine heatwaves notebook
    dataset_id,     \* the global dataset_id
    query,          \* datasetId of the loaded query, "none" before
    hda,            \* the HDA dictionary (hda_dict, HAPI_dict)
    jobs,           \* the jobs submitted to the server, by job id
    totItems,       \* the number of products the server holds for the last job
    orders,         \* the orders placed for the last job, by order id
    waits,          \* the poll loop last entered and the waits it announced
    downloaded,     \* what the current download_data call has fetched
    idx,            \* the iteration of the time-series loop
    found_results,
    total_results,
    page_count,
    calls,          \* the helper calls made so far
    returned,       \* how many of them have returned
    user_name,
    password,
    api_key,        \* the key generated from user_name and password, "" before
    listable,       \* the number of products the server's results pages list
    fetched         \* the results pages fetched for the last job

vars == << nb, cell, ip, at, err, ended, download_data, dataset_id, query, hda,
           jobs, totItems, orders, waits, downloaded, idx, found_results, total_results,
           page_count, calls, returned, user_name, password, api_key, listable, fetched >>

creds == << user_name, password, api_key >>
counters == << found_results, total_results, page_count >>

\* the name the server gives product k
FileName(k) == << "product_1", "product_2", "product_3", "product_4", "product_5" >>[k]

\* the name the how-to notebook stores in the first results entry
UserFileName == "waves_spain_forecast"

NoWaits == [loop |-> "none", secs |-> << >>]

NoResults == [content |-> << >>, itemsInPage |-> 0, totItems |-> 0]

\* no dictionary yet: nothing initialised
NoDict == [dataset_id |-> "none", api_key |-> "none", download_dir_path |-> "none",
           token |-> FALSE, job_id |-> 0,
           results |-> NoResults, order_ids |-> << >>]

\* ------------------------------------------------------------ control flow
Stmt == IF cell = "done" THEN "none" ELSE Code(cell)[ip]

NextCell(n, c) ==
    LET cs == Notebook(n)
        i  == IndexOf(cs, c)
    IN IF i < Len(cs) THEN cs[i + 1] ELSE "done"

\* where control is after the statement i of cell c has run
After(c, i) ==
    IF i < Len(Code(c)) THEN << c, i + 1 >>
    ELSE IF LoopHead(c) > 0 THEN << c, LoopHead(c) >>
    ELSE << NextCell(nb, c), 1 >>

Running(s) == cell # "done" /\ err = "none" /\ at = "stmt" /\ Stmt = s

Advance ==
    /\ cell' = After(cell, ip)[1]
    /\ ip' = After(cell, ip)[2]
    /\ at' = "stmt"
    /\ ended' = IF After(cell, ip)[1] # cell THEN ended \cup {<< cell, "ok" >>} ELSE ended

EndCell(outcome) ==
    /\ cell' = NextCell(nb, cell)
    /\ ip' = 1
    /\ at' = "stmt"
    /\ ended' = ended \cup {<< cell, outcome >>}

\* the status last observed for the job of the dictionary
JobStatus == IF hda.job_id = 0 THEN "none" ELSE jobs[hda.job_id].status

\* an entry of the call history: the helper and what it was called with
Logged(fn) == [fn |-> fn, token |-> hda.token, ds |-> hda.dataset_id,
               qds |-> query, status |-> JobStatus, returned |-> returned]

Call(fn) == calls' = Append(calls, Logged(fn))
Return == returned' = returned + 1

Init ==
    /\ nb \in Notebooks
    /\ cell = Notebook(nb)[1]
    /\ ip = 1
    /\ at = "stmt"
    /\ err = "none"
    /\ ended = {}
    /\ download_data \in (IF nb = "mhw" THEN BOOLEAN ELSE {TRUE})
    /\ dataset_id = DatasetIdOf(nb)
    /\ query = "none"
    /\ hda = NoDict
    /\ jobs = << >>
    /\ totItems = 0
    /\ orders = << >>
    /\ waits = NoWaits
    /\ downloaded = << >>
    /\ idx = 0
    /\ found_results = FoundResultsStart
    /\ total_results = TotalResultsStart
    /\ page_count = PageCountStart
    /\ calls = << >>
    /\ returned = 0
    /\ user_name = ExampleUser
    /\ password = ExampleUser
    /\ api_key = generate_api_key(ExampleUser, ExampleUser)
    /\ listable = 0
    /\ fetched = << >>

\* ------------------------------------------------ helpers (hda_api_functions)
\* init(dataset_id, api_key, download_dir_path): a new dictionary
init(ds, key, dir) ==
    [NoDict EXCEPT !.dataset_id = ds, !.api_key = key, !.download_dir_path = dir]

\* get_access_token(hda_dict): the access token is stored in the dictionary
get_access_token(d) == [d EXCEPT !.token = TRUE]

\* acceptTandC(hda_dict): accepts the terms and conditions for the token's user
acceptTandC(d) == d

\* get_job_id returning on the first status it reads
JobDone_AnyStatus(s) == s \in {"running", "completed"}

\* get_job_id polls until the job's status reads 'completed'
JobDone(s) == s = "completed"

\* get_order_ids returning on the first status it reads
OrderDone_AnyStatus(s) == s \in {"running", "completed"}

\* get_order_ids polls until the order's status reads 'completed'
OrderDone(s) == s = "completed"

\* what the status endpoint can answer to the count-th check
ServerStatus(count) == IF count >= MaxPolls THEN {"completed"} ELSE {"running", "completed"}

\* the same wait before every check
RecordedWaits_Fixed(loop) == IF loop = "job" THEN << 5, 5 >> ELSE << 5 >>

\* the waits the notebook output records, in seconds, per poll loop
RecordedWaits(loop) == IF loop = "job" THEN << 5, 10 >> ELSE << 5 >>

\* waits the output does not record: any of these
WaitValues == {5, 10, 15}

\* 'Next check in N seconds' before the count-th status check
WaitBefore(loop, count) ==
    IF count <= Len(RecordedWaits(loop)) THEN {RecordedWaits(loop)[count]} ELSE WaitValues

\* the results page the server returns for a job of tot products, lst of them listed
ResultsPage(tot, lst, page) ==
    LET first == page * PageSize + 1
        last  == IF (page + 1) * PageSize < lst THEN (page + 1) * PageSize ELSE lst
        n     == IF last >= first THEN last - first + 1 ELSE 0
    IN [content |-> [i \in 1..n |-> [url |-> first + i - 1, filename |-> FileName(first + i - 1)]],
        itemsInPage |-> n,
        totItems |-> tot]

\* os.path.join(dir, name)
PathJoin(dir, name) ==
    IF Len(dir) > 0 /\ CharAt(dir, Len(dir)) # "/" THEN dir \o "/" \o name ELSE dir \o name

\* the file download_data writes for a results entry named filename
TargetPath(dir, filename, file_extension, user_filename) ==
    IF user_filename # "" THEN PathJoin(dir, user_filename)
    ELSE PathJoin(dir, filename \o file_extension)

\* ------------------------------------------------------- the call arguments
\* os.getcwd() of the how-to notebook
HowtoCwd == "/home/javitausia/Documentos/AIFEM/wekeo-jupyter-lab/wekeo-hda"

\* the directory of the marine heatwaves notebook, standing for its os.getcwd()
MhwCwd == "ocean/OceanCaseStudies"

\* download_dir_path of a notebook
DownloadDirPath(n) ==
    CASE n = "howto" -> HowtoCwd \o "/data/"
      [] n = "olci"  -> "../../data/"
      [] n = "mhw"   -> PathJoin(MhwCwd, "products")

\* the page argument of get_results_list: page_count in the SLSTR cell, else the default
PageArg(c, pc) == IF c = "slstr" THEN pc ELSE 0

\* the how-to download called with the extension of the SLSTR cell
FileExtension_Zip(c) ==
    CASE c = "howto" -> ".zip"
      [] c = "slstr" -> ".zip"
      [] OTHER       -> ""

\* the file_extension argument of download_data ("": not given)
FileExtension(c) ==
    CASE c = "howto" -> ".nc"
      [] c = "slstr" -> ".zip"
      [] OTHER       -> ""

FirstRepYear == 2008
FirstNrtYear == 2020

\* str(n) for n >= 0
RECURSIVE ToStr(_)
ToStr(n) == IF n < 10 THEN CharAt(Digits, n + 1) ELSE ToStr(n \div 10) \o CharAt(Digits, (n % 10) + 1)

\* sub in str
Contains(str, sub) ==
    \E i \in 1..(Len(str) - Len(sub) + 1) : SubSeq(str, i, i + Len(sub) - 1) = sub

\* the year of the i-th turn of the time-series loop
YearOf(i) == IF i <= NumRep THEN FirstRepYear + i - 1 ELSE FirstNrtYear + i - NumRep - 1

\* the user_filename argument of download_data ("": not given)
UserFilenameArg(c, ds, i) ==
    IF c = "timeseries"
    THEN "METOFFICE-GLO-SST-L4-" \o (IF Contains(ds, "NRT") THEN "XNRT" ELSE "REP") \o "_"
         \o ToStr(YearOf(i)) \o "-01-01_" \o ToStr(YearOf(i)) \o "-12-31" \o ".nc"
    ELSE ""

\* ------------------------------------------------------------ the statements
\* if download_data:
If ==
    /\ Running("if")
    /\ IF download_data
       THEN Advance /\ UNCHANGED err
       ELSE EndCell("skipped") /\ UNCHANGED err
    /\ total_results' = IF cell = "slstr" THEN TotalResultsStart ELSE total_results
    /\ UNCHANGED << nb, creds, listable, fetched, download_data, dataset_id, query, hda, jobs, totItems, orders, waits,
                    downloaded, idx, found_results, page_count, calls, returned >>

\* hda_dict = init(dataset_id, api_key, download_dir_path)
CallInit ==
    /\ Running("init")
    /\ hda' = init(dataset_id, api_key, DownloadDirPath(nb))
    /\ Call("init") /\ Return /\ Advance
    /\ UNCHANGED << nb, creds, listable, fetched, err, download_data, dataset_id, query, jobs, totItems, orders, waits,
                    downloaded, idx, counters >>

\* hda_dict = get_access_token(hda_dict)
CallGetAccessToken ==
    /\ Running("get_access_token")
    /\ hda' = get_access_token(hda)
    /\ Call("get_access_token") /\ Return /\ Advance
    /\ UNCHANGED << nb, creds, listable, fetched, err, download_data, dataset_id, query, jobs, totItems, orders, waits,
                    downloaded, idx, counters >>

\* hda_dict = acceptTandC(hda_dict)
CallAcceptTandC ==
    /\ Running("acceptTandC")
    /\ hda' = acceptTandC(hda)
    /\ Call("acceptTandC") /\ Return /\ Advance
    /\ UNCHANGED << nb, creds, listable, fetched, err, download_data, dataset_id, query, jobs, totItems, orders, waits,
                    downloaded, idx, counters >>

\* data = {...} / json.load(f) / json.loads(query)
LoadQuery ==
    /\ Running("load_query")
    /\ query' = QueryDataset(cell, dataset_id)
    /\ Advance
    /\ UNCHANGED << nb, creds, listable, fetched, err, download_data, dataset_id, hda, jobs, totItems, orders, waits,
                    downloaded, idx, counters, calls, returned >>

\* hda_dict = get_job_id(hda_dict, data): the query is posted, a job id comes back
CallGetJobId ==
    /\ Running("get_job_id")
    /\ jobs' = Append(jobs, [cell |-> cell, idx |-> idx,
                             status |-> "not started", listed |-> FALSE,
                             ordered |-> FALSE, downloaded |-> FALSE])
    /\ totItems' \in 0..MaxItems
    /\ listable' = totItems'
    /\ fetched' = << >>
    /\ hda' = [hda EXCEPT !.job_id = Len(jobs) + 1]
    /\ waits' = [loop |-> "job", secs |-> << >>]
    /\ at' = "job_poll"
    /\ Call("get_job_id")
    /\ UNCHANGED << nb, creds, cell, ip, err, ended, download_data, dataset_id, query, orders,
                    downloaded, idx, counters, returned >>

\* get_job_id, one turn of its status loop: wait, then read the job's status
PollJob ==
    /\ at = "job_poll"
    /\ \E w \in WaitBefore("job", Len(waits.secs) + 1), s \in ServerStatus(Len(waits.secs) + 1) :
         /\ waits' = [waits EXCEPT !.secs = Append(@, w)]
         /\ jobs' = [jobs EXCEPT ![hda.job_id].status = s]
         /\ IF JobDone(s)
            THEN Return /\ Advance
            ELSE UNCHANGED << cell, ip, at, ended, returned >>
    /\ UNCHANGED << nb, creds, listable, fetched, err, download_data, dataset_id, query, hda, totItems, orders,
                    downloaded, idx, counters, calls >>

\* hda_dict = get_results_list(hda_dict) / get_results_list(HAPI_dict, page=page_count)
CallGetResultsList ==
    /\ Running("get_results_list")
    /\ LET page == PageArg(cell, page_count)
           res  == ResultsPage(totItems, listable, page)
       IN /\ hda' = [hda EXCEPT !.results = res]
          /\ fetched' = Append(fetched, [page |-> page, itemsInPage |-> res.itemsInPage])
    /\ jobs' = [jobs EXCEPT ![hda.job_id].listed = TRUE]
    /\ Call("get_results_list") /\ Return /\ Advance
    /\ UNCHANGED << nb, creds, listable, err, download_data, dataset_id, query, totItems, orders, waits,
                    downloaded, idx, counters >>

\* hda_dict = get_order_ids(hda_dict): an order per entry of the results list
CallGetOrderIds ==
    /\ Running("get_order_ids")
    /\ orders' = << >>
    /\ hda' = [hda EXCEPT !.order_ids = << >>]
    /\ Call("get_order_ids")
    /\ IF Len(hda.results.content) = 0
       THEN /\ Return /\ Advance
            /\ jobs' = [jobs EXCEPT ![hda.job_id].ordered = TRUE]
       ELSE /\ at' = "order_submit"
            /\ UNCHANGED << cell, ip, ended, returned, jobs >>
    /\ UNCHANGED << nb, creds, listable, fetched, err, download_data, dataset_id, query, totItems, waits,
                    downloaded, idx, counters >>

\* get_order_ids: the order for the next entry is posted, an order id comes back
SubmitOrder ==
    /\ at = "order_submit"
    /\ orders' = Append(orders, [job |-> hda.job_id,
                                 url |-> hda.results.content[Len(hda.order_ids) + 1].url,
                                 status |-> "not started"])
    /\ waits' = [loop |-> "order", secs |-> << >>]
    /\ at' = "order_poll"
    /\ UNCHANGED << nb, creds, listable, fetched, cell, ip, err, ended, download_data, dataset_id, query, hda, jobs, totItems,
                    downloaded, idx, counters, calls, returned >>

\* get_order_ids, one turn of its status loop: wait, then read the order's status
PollOrder ==
    /\ at = "order_poll"
    /\ \E w \in WaitBefore("order", Len(waits.secs) + 1), s \in ServerStatus(Len(waits.secs) + 1) :
         /\ waits' = [waits EXCEPT !.secs = Append(@, w)]
         /\ orders' = [orders EXCEPT ![Len(orders)].status = s]
         /\ IF ~OrderDone(s)
            THEN UNCHANGED << cell, ip, at, ended, returned, hda, jobs >>
            ELSE /\ hda' = [hda EXCEPT !.order_ids = Append(@, Len(orders))]
                 /\ IF Len(hda.order_ids) + 1 < Len(hda.results.content)
                    THEN /\ at' = "order_submit"
                         /\ UNCHANGED << cell, ip, ended, returned, jobs >>
                    ELSE /\ Return /\ Advance
                         /\ jobs' = [jobs EXCEPT ![hda.job_id].ordered = TRUE]
    /\ UNCHANGED << nb, creds, listable, fetched, err, download_data, dataset_id, query, totItems,
                    downloaded, idx, counters, calls >>

\* hda_dict['results']['content'][0]['filename'] = filename
SetFilename ==
    /\ Running("set_filename")
    /\ IF Len(hda.results.content) = 0
       THEN /\ err' = "IndexError"
            /\ UNCHANGED << hda, cell, ip, at, ended >>
       ELSE /\ hda' = [hda EXCEPT !.results.content[1].filename = UserFileName]
            /\ Advance /\ UNCHANGED err
    /\ UNCHANGED << nb, creds, listable, fetched, download_data, dataset_id, query, jobs, totItems, orders, waits,
                    downloaded, idx, counters, calls, returned >>

\* hda_dict = download_data(hda_dict, ...): a download per order id
CallDownloadData ==
    /\ Running("download_data")
    /\ downloaded' = << >>
    /\ Call("download_data")
    /\ IF Len(hda.order_ids) = 0
       THEN /\ Return /\ Advance
            /\ jobs' = [jobs EXCEPT ![hda.job_id].downloaded = TRUE]
       ELSE /\ at' = "downloading"
            /\ UNCHANGED << cell, ip, ended, returned, jobs >>
    /\ UNCHANGED << nb, creds, listable, fetched, err, download_data, dataset_id, query, hda, totItems, orders, waits,
                    idx, counters >>

\* download_data: the file of the next order id is fetched and written
DownloadFile ==
    /\ at = "downloading"
    /\ LET k == Len(downloaded) + 1
           oid == hda.order_ids[k]
       IN /\ downloaded' = Append(downloaded,
                 [order_id |-> oid, order |-> orders[oid], url |-> orders[oid].url,
                  filename |-> hda.results.content[k].filename,
                  path |-> TargetPath(hda.download_dir_path, hda.results.content[k].filename,
                                      FileExtension(cell), UserFilenameArg(cell, dataset_id, idx))])
          /\ IF k < Len(hda.order_ids)
             THEN UNCHANGED << cell, ip, at, ended, returned, jobs >>
             ELSE /\ Return /\ Advance
                  /\ jobs' = [jobs EXCEPT ![hda.job_id].downloaded = TRUE]
    /\ UNCHANGED << nb, creds, listable, fetched, err, download_data, dataset_id, query, hda, totItems, orders, waits,
                    idx, counters, calls >>

\* found_results = 0; page_count = -1; print(HAPI_dict)
SetCounters ==
    /\ Running("set_counters")
    /\ found_results' = FoundResultsStart
    /\ page_count' = PageCountStart
    /\ Advance
    /\ UNCHANGED << nb, creds, listable, fetched, err, download_data, dataset_id, query, hda, jobs, totItems, orders, waits,
                    downloaded, idx, total_results, calls, returned >>

\* asdf: the name is bound nowhere, the statement raises NameError
Asdf ==
    /\ Running("asdf")
    /\ err' = "NameError"
    /\ UNCHANGED << nb, creds, listable, fetched, cell, ip, at, ended, download_data, dataset_id, query, hda, jobs,
                    totItems, orders, waits, downloaded, idx, counters, calls, returned >>

\* for start_date, end_date, dataset_id in zip(start_dates, end_dates, dataset_ids):
For ==
    /\ Running("for")
    /\ IF idx < Len(dataset_ids)
       THEN /\ idx' = idx + 1
            /\ dataset_id' = dataset_ids[idx + 1]
            /\ Advance
       ELSE /\ EndCell("ok")
            /\ UNCHANGED << idx, dataset_id >>
    /\ UNCHANGED << nb, creds, listable, fetched, err, download_data, query, hda, jobs, totItems, orders, waits,
                    downloaded, counters, calls, returned >>

\* an exception ends the cell; the next cell of the notebook is run
RunNextCell ==
    /\ cell # "done"
    /\ err # "none"
    /\ EndCell(err)
    /\ err' = "none"
    /\ UNCHANGED << nb, creds, listable, fetched, download_data, dataset_id, query, hda, jobs, totItems, orders, waits,
                    downloaded, idx, counters, calls, returned >>

Next ==
    \/ If
    \/ CallInit
    \/ CallGetAccessToken
    \/ CallAcceptTandC
    \/ LoadQuery
    \/ CallGetJobId
    \/ PollJob
    \/ CallGetResultsList
    \/ CallGetOrderIds
    \/ SubmitOrder
    \/ PollOrder
    \/ SetFilename
    \/ CallDownloadData
    \/ DownloadFile
    \/ SetCounters
    \/ Asdf
    \/ For
    \/ RunNextCell

Spec == Init /\ [][Next]_vars

\* ------------------------------------------- the pagination loop on its own
\* while found_results < total_results: page_count = page_count + 1
While ==
    /\ Running("while")
    /\ found_results < total_results => page_count + 1 < MaxPages
    /\ IF found_results < total_results
       THEN /\ page_count' = page_count + 1
            /\ Advance
       ELSE /\ EndCell("ok")
            /\ UNCHANGED page_count
    /\ UNCHANGED << nb, creds, listable, fetched, err, download_data, dataset_id, query, hda, jobs, totItems, orders,
                    waits, downloaded, idx, found_results, total_results, calls, returned >>

\* the update with found_results overwritten by the page's count instead of cumulated
UpdateCounts_Overwrite ==
    /\ Running("update_counts")
    /\ total_results' = hda.results.totItems
    /\ found_results' = hda.results.itemsInPage
    /\ Advance
    /\ UNCHANGED << nb, creds, listable, fetched, err, download_data, dataset_id, query, hda, jobs, totItems, orders,
                    waits, downloaded, idx, page_count, calls, returned >>

\* total_results = HAPI_dict['results']['totItems']
\* found_results = found_results + HAPI_dict['results']['itemsInPage']
UpdateCounts ==
    /\ Running("update_counts")
    /\ total_results' = hda.results.totItems
    /\ found_results' = found_results + hda.results.itemsInPage
    /\ Advance
    /\ UNCHANGED << nb, creds, listable, fetched, err, download_data, dataset_id, query, hda, jobs, totItems, orders,
                    waits, downloaded, idx, page_count, calls, returned >>

\* the state in which the while statement of the SLSTR cell would be entered:
\* the dictionary initialised, the token held, the job read as completed
InitPages ==
    /\ nb = "mhw"
    /\ cell = "slstr"
    /\ ip = IndexOf(SlstrCell, "while")
    /\ at = "stmt"
    /\ err = "none"
    /\ ended = {}
    /\ download_data = TRUE
    /\ dataset_id = DS_SLSTR
    /\ query = DS_SLSTR
    /\ hda = [get_access_token(init(DS_SLSTR, generate_api_key(ExampleUser, ExampleUser),
                                    DownloadDirPath("mhw"))) EXCEPT !.job_id = 1]
    /\ jobs = << [cell |-> "slstr", idx |-> 0, status |-> "completed",
                  listed |-> FALSE, ordered |-> FALSE, downloaded |-> FALSE] >>
    /\ totItems \in 0..MaxItems
    /\ listable \in 0..totItems
    /\ fetched = << >>
    /\ user_name = ExampleUser
    /\ password = ExampleUser
    /\ api_key = generate_api_key(ExampleUser, ExampleUser)
    /\ orders = << >>
    /\ waits = [loop |-> "job", secs |-> << 5 >>]
    /\ downloaded = << >>
    /\ idx = 0
    /\ found_results = FoundResultsStart
    /\ total_results = TotalResultsStart
    /\ page_count = PageCountStart
    /\ calls = << [fn |-> "init", token |-> FALSE, ds |-> "none", qds |-> "none",
                   status |-> "none", returned |-> 0],
                  [fn |-> "get_access_token", token |-> FALSE, ds |-> DS_SLSTR, qds |-> "none",
                   status |-> "none", returned |-> 1],
                  [fn |-> "acceptTandC", token |-> TRUE, ds |-> DS_SLSTR, qds |-> "none",
                   status |-> "none", returned |-> 2],
                  [fn |-> "get_job_id", token |-> TRUE, ds |-> DS_SLSTR, qds |-> DS_SLSTR,
                   status |-> "none", returned |-> 3] >>
    /\ returned = 4

NextPages ==
    \/ While
    \/ CallGetResultsList
    \/ UpdateCounts
    \/ CallGetOrderIds
    \/ SubmitOrder
    \/ PollOrder
    \/ CallDownloadData
    \/ DownloadFile

\* the while loop of the SLSTR cell, run from the state the statements before
\* line 243 leave
SpecPages == InitPages /\ [][NextPages]_vars

\* the kernel runs the statements of a cell one after the other: a statement
\* that can run does run
SpecPagesFair == SpecPages /\ WF_vars(NextPages)

\* ------------------------------------------------ the API key on its own
\* api_key = generate_api_key(user_name, password)
GenerateApiKey ==
    /\ calls = << >>
    /\ api_key' = generate_api_key(user_name, password)
    /\ UNCHANGED << nb, user_name, password, listable, fetched, cell, ip, at, err, ended,
                    download_data, dataset_id, query, hda, jobs, totItems, orders, waits,
                    downloaded, idx, counters, calls, returned >>

\* the how-to notebook before its key is generated, for a choice of credentials
InitKey ==
    /\ user_name \in UserNames
    /\ password \in Passwords
    /\ api_key = ""
    /\ nb = "howto"
    /\ cell = Notebook(nb)[1]
    /\ ip = 1
    /\ at = "stmt"
    /\ err = "none"
    /\ ended = {}
    /\ download_data = TRUE
    /\ dataset_id = DatasetIdOf(nb)
    /\ query = "none"
    /\ hda = NoDict
    /\ jobs = << >>
    /\ totItems = 0
    /\ listable = 0
    /\ fetched = << >>
    /\ orders = << >>
    /\ waits = NoWaits
    /\ downloaded = << >>
    /\ idx = 0
    /\ found_results = FoundResultsStart
    /\ total_results = TotalResultsStart
    /\ page_count = PageCountStart
    /\ calls = << >>
    /\ returned = 0

NextKey == GenerateApiKey

SpecKey == InitKey /\ [][NextKey]_vars

\* ------------------------------------------------------------------ claims
\* the order of the HDA helper calls
Order == << "init", "get_access_token", "acceptTandC", "get_job_id",
            "get_results_list", "get_order_ids", "download_data" >>

Last(q) == q[Len(q)]

\* the last helper call made is a call of fn and it has returned
JustReturned(fn) == calls # << >> /\ Last(calls).fn = fn /\ returned = Len(calls)

\* C1: every helper call is made when all earlier calls have returned and every
\* helper that precedes it in the order init, get_access_token, acceptTandC,
\* get_job_id, get_results_list, get_order_ids, download_data has been called
C1_CallOrder ==
    \A i \in DOMAIN calls :
        /\ calls[i].returned = i - 1
        /\ \A p \in 1..(IndexOf(Order, calls[i].fn) - 1) :
               \E j \in 1..(i - 1) : calls[j].fn = Order[p]

\* download_data has returned a second time, in the time-series loop
C1_Witness ==
    /\ JustReturned("download_data")
    /\ Cardinality({i \in DOMAIN calls : calls[i].fn = "download_data"}) >= 2

\* C2: a job whose status has not been read as 'completed' is the job get_job_id
\* is still polling, and every call of get_results_list is made for a job whose
\* status has been read as 'completed'
C2_ResultsAfterCompleted ==
    /\ \A j \in DOMAIN jobs :
           jobs[j].status # "completed" => (at = "job_poll" /\ j = hda.job_id /\ returned < Len(calls))
    /\ \A i \in DOMAIN calls :
           calls[i].fn = "get_results_list" => calls[i].status = "completed"

\* get_results_list has been called for a job that was read as running first
C2_Witness ==
    /\ JustReturned("get_results_list")
    /\ waits.loop = "job" /\ Len(waits.secs) >= 2

\* C3: every file download_data has fetched was fetched through an order id of
\* the dictionary, placed for that file, whose status has been read as 'completed'
C3_DownloadOnlyCompletedOrders ==
    \A k \in DOMAIN downloaded :
        LET d == downloaded[k]
        IN /\ d.order.url = d.url
           /\ d.order.status = "completed"
           /\ \E i \in DOMAIN calls : calls[i].fn = "get_order_ids"

\* two files have been fetched, the order of one was read as running first
C3_Witness ==
    /\ Len(downloaded) >= 2
    /\ waits.loop = "order" /\ Len(waits.secs) >= 2

\* C4: when download_data has returned, every entry of the results list has an
\* order id placed for it and has been downloaded
C4_AllListedDownloaded ==
    JustReturned("download_data") =>
        /\ Len(hda.order_ids) = Len(hda.results.content)
        /\ \A k \in DOMAIN hda.results.content :
               /\ orders[hda.order_ids[k]].url = hda.results.content[k].url
               /\ orders[hda.order_ids[k]].job = hda.job_id
               /\ \E m \in DOMAIN downloaded :
                      /\ downloaded[m].url = hda.results.content[k].url
                      /\ downloaded[m].order.job = hda.job_id

\* download_data has returned for a results list of two entries
C4_Witness ==
    /\ JustReturned("download_data")
    /\ Len(hda.results.content) >= 2

SlstrOver == (cell = "slstr" /\ err # "none") \/ (\E o \in {"ok", "NameError"} : << "slstr", o >> \in ended)

\* the jobs the SLSTR download cell has launched
SlstrJobs == {j \in DOMAIN jobs : jobs[j].cell = "slstr"}

\* C6: when the SLSTR download cell is over with download_data = True, it has
\* raised nothing, it has fetched a results page and its job is downloaded
C6_SlstrCellDownloads ==
    (download_data /\ SlstrOver) =>
        /\ err = "none"
        /\ << "slstr", "NameError" >> \notin ended
        /\ page_count >= 0
        /\ \E i \in DOMAIN calls : calls[i].fn = "get_results_list"
        /\ \A j \in SlstrJobs : jobs[j].listed /\ jobs[j].downloaded

\* C7: when the SLSTR download cell is over with download_data = True, the
\* results found are at least the total and the job has been ordered and downloaded
C7_AllPagesCaptured ==
    (download_data /\ SlstrOver) =>
        /\ found_results >= total_results
        /\ \A j \in SlstrJobs : jobs[j].ordered /\ jobs[j].downloaded

\* C8: at most one job is not yet read as 'completed', and a job launched in a
\* later turn of the time-series loop finds the job of the turn before listed,
\* ordered and downloaded
C8_OneJobAtATime ==
    /\ Cardinality({j \in DOMAIN jobs : jobs[j].status # "completed"}) <= 1
    /\ \A j \in DOMAIN jobs :
           (jobs[j].cell = "timeseries" /\ jobs[j].idx > 1) =>
               /\ j > 1
               /\ jobs[j - 1].cell = "timeseries"
               /\ jobs[j - 1].idx = jobs[j].idx - 1
               /\ jobs[j - 1].status = "completed"
               /\ jobs[j - 1].listed
               /\ jobs[j - 1].ordered
               /\ jobs[j - 1].downloaded

\* the time-series loop has launched the job of its second turn
C8_Witness ==
    \E j \in DOMAIN jobs : jobs[j].cell = "timeseries" /\ jobs[j].idx = 2 /\ downloaded # << >>

\* C9: when get_access_token has returned the dictionary holds a token, and
\* acceptTandC, get_job_id, get_results_list, get_order_ids and download_data
\* are called with a dictionary that holds a token
C9_TokenHeld ==
    /\ JustReturned("get_access_token") => hda.token
    /\ \A i \in DOMAIN calls :
           calls[i].fn \in {"acceptTandC", "get_job_id", "get_results_list",
                            "get_order_ids", "download_data"} => calls[i].token

\* the time-series cell, after its own init, has called download_data
C9_Witness ==
    /\ cell = "timeseries"
    /\ JustReturned("download_data")
    /\ Last(calls).token

\* C10: at every call of get_job_id the dataset_id the dictionary was
\* initialised with is the datasetId of the loaded query
C10_DatasetMatchesQuery ==
    \A i \in DOMAIN calls :
        calls[i].fn = "get_job_id" => calls[i].ds = calls[i].qds

\* the download the how-to notebook recorded
RecordedDownload ==
    "/home/javitausia/Documentos/AIFEM/wekeo-jupyter-lab/wekeo-hda/data/waves_spain_forecast.nc"

\* download_dir_path as the notebook passed it to init
DirOfInit == IF \E i \in DOMAIN calls : calls[i].fn = "init" THEN DownloadDirPath(nb) ELSE "none"

\* C11: every downloaded file is written under the download directory given to
\* init; in the how-to notebook, whose first results entry was renamed and whose
\* download_data call has file_extension '.nc', each file is written to
\* download_dir_path + filename + '.nc', the first one to the recorded path
C11_DownloadPath ==
    \A m \in DOMAIN downloaded :
        /\ hda.download_dir_path = DirOfInit
        /\ SubSeq(downloaded[m].path, 1, Len(DirOfInit)) = DirOfInit
        /\ nb = "howto" =>
               /\ downloaded[m].path = DirOfInit \o downloaded[m].filename \o ".nc"
               /\ m = 1 => /\ downloaded[m].filename = "waves_spain_forecast"
                           /\ downloaded[m].path = RecordedDownload

\* the how-to notebook's download_data has returned after writing two files
C11_Witness ==
    /\ nb = "howto" /\ JustReturned("download_data")
    /\ Len(downloaded) >= 2
    /\ downloaded[1].filename = UserFileName

\* the characters a Base64 text is made of
B64Chars == {CharAt(B64Alphabet, i) : i \in 1..Len(B64Alphabet)} \cup {"="}

\* C12: the key generate_api_key returns is the Base64 encoding of
\* 'username:password': it decodes to those bytes, it has four characters per
\* three bytes, and for wekeo-test / wekeo-test it is the documented example key
C12_ApiKeyIsBase64 ==
    api_key # "" =>
        /\ Base64Decode(api_key) = Bytes(user_name \o ":" \o password)
        /\ Len(api_key) = 4 * ((Len(user_name) + 1 + Len(password) + 2) \div 3)
        /\ \A i \in 1..Len(api_key) : CharAt(api_key, i) \in B64Chars
        /\ (user_name = ExampleUser /\ password = ExampleUser) => api_key = ExampleKey

\* the key of the documented example credentials has been generated
C12_Witness ==
    /\ user_name = ExampleUser /\ password = ExampleUser
    /\ api_key = ExampleKey

\* the while loop of the SLSTR cell has been left
LoopExited == << "slstr", "ok" >> \in ended

\* every results page fetched so far reported at least one item
PagesNonEmpty == \A i \in DOMAIN fetched : fetched[i].itemsInPage >= 1

\* the first results page fetched for the job is page 0
PageZeroFetched == Len(fetched) >= 1 /\ fetched[1].page = 0

\* the pagination loop run on its own: if every page fetched reports at least
\* one item the loop is left, and it is never left before page 0 was fetched
LoopTerminates ==
    /\ ([]PagesNonEmpty) => <>LoopExited
    /\ [](LoopExited => PageZeroFetched)

\* C13: when the SLSTR download cell is over with download_data = True, and
\* before any later job is launched, results page 0 of its job has been fetched
C13_PageZeroFetched ==
    (download_data /\ SlstrOver /\ SlstrJobs = DOMAIN jobs) => PageZeroFetched

\* the sum of itemsInPage over a sequence of fetched pages
RECURSIVE SumItems(_)
SumItems(q) == IF q = << >> THEN 0 ELSE SumItems(SubSeq(q, 1, Len(q) - 1)) + Last(q).itemsInPage

\* between two iterations of the while loop, or after it
AtLoopHead == LoopExited \/ (cell = "slstr" /\ at = "stmt" /\ Stmt = "while")

\* C14: the i-th page requested is page i-1, so the page numbers are 0, 1, 2, ...
\* and none is requested twice; after k iterations, k pages have been fetched,
\* page_count = k-1 and found_results is the sum of their itemsInPage
C14_ConsecutivePages ==
    /\ \A i \in DOMAIN fetched : fetched[i].page = i - 1
    /\ page_count \in {Len(fetched) - 1, Len(fetched)}
    /\ AtLoopHead =>
           /\ page_count = Len(fetched) - 1
           /\ found_results = SumItems(fetched)

\* two iterations are over, each with a page that listed something
C14_Witness ==
    /\ AtLoopHead
    /\ Len(fetched) >= 2
    /\ fetched[1].itemsInPage >= 1 /\ fetched[2].itemsInPage >= 1

\* the calls of get_results_list made after an earlier one
LaterFetches ==
    {i \in DOMAIN calls : /\ calls[i].fn = "get_results_list"
                          /\ \E j \in 1..(i - 1) : calls[j].fn = "get_results_list"}

\* C15: a results page after the first is fetched only when every earlier call
\* has returned, the two calls before it being get_order_ids and download_data;
\* when the next page is about to be fetched, every entry of the page before
\* has its order id and its download
C15_DownloadBeforeNextPage ==
    /\ \A i \in LaterFetches :
           /\ calls[i].returned = i - 1
           /\ calls[i - 1].fn = "download_data"
           /\ calls[i - 2].fn = "get_order_ids"
    /\ (Running("get_results_list") /\ fetched # << >>) =>
           /\ returned = Len(calls)
           /\ Len(hda.order_ids) = Last(fetched).itemsInPage
           /\ Len(downloaded) = Last(fetched).itemsInPage
           /\ \A k \in DOMAIN downloaded : downloaded[k].url = hda.results.content[k].url

\* a second page has been fetched after a first page that listed two products
C15_Witness ==
    /\ LaterFetches # {}
    /\ Len(fetched) >= 2
    /\ fetched[1].itemsInPage >= 2

====
